---- MODULE Spec2Model ----
(***************************************************************************)
(* Model of create_continents_graph (src/main.py): one call of the        *)
(* function, stepped through its stages                                    *)
(*   load/coerce -> rename index -> x labels -> clean -> normalize ->      *)
(*   plot -> save.                                                         *)
(* The inputs of the call (the CSV file's content and the arguments) are   *)
(* drawn from bounded sets in Init.                                        *)
(*                                                                         *)
(* Numbers are exact decimals in two limbs, c * 10^-4 + f * 10^-12 with    *)
(* 0 <= f < 10^8, so that the 1e-9 tolerance of the rescale test and the   *)
(* division by 100 are both representable in TLC's 32-bit integers.        *)
(***************************************************************************)
EXTENDS Integers, Sequences, FiniteSets, TLC

VARIABLES
    csv_file,          \* argument: path of the CSV file, a sequence of characters
    csv,               \* content of that file: index keys, header, raw cells
    custom_title,      \* argument: "" stands for None
    custom_x_labels,   \* argument: [kind, labels, map]
    label_map,         \* argument: [none, map]
    y_unit,            \* argument
    df,                \* the local dataframe: [index, columns, values]
    x_tick_labels,     \* the local x_tick_labels: [none, labels]
    max_failed,        \* TRUE once the except branch of the normalization ran
    chart,             \* what is drawn on the axes so far
    files,             \* paths of the image files written by the call
    ret,               \* the returned path, <<>> while nothing is returned
    err,               \* the message of the exception that ended the call, <<>> while none
    pc                 \* position of the call

vars == <<csv_file, csv, custom_title, custom_x_labels, label_map, y_unit,
          df, x_tick_labels, max_failed, chart, files, ret, err, pc>>

----------------------------------------------------------------------------
(* Bounds of the model *)

\* A table has at most MaxCells cells (rows * columns <= MaxCells).
MaxCells == 4
\* An x_labels list has at most MaxLabels entries.
MaxLabels == 2

----------------------------------------------------------------------------
(* Numbers *)

\* 10^-4 / 100 in units of 10^-12
CentShift == 1000000

Num(c, f) == [nan |-> FALSE, c |-> c, f |-> f]
NaN == [nan |-> TRUE, c |-> 0, f |-> 0]

Gt(a, b) == a.c > b.c \/ (a.c = b.c /\ a.f > b.f)

\* 1.0 + 1e-9
RescaleThreshold == Num(10000, 1000)

\* v / 100.0
Div100(v) ==
    IF v.nan THEN v
    ELSE Num(v.c \div 100, (v.c % 100) * CentShift + v.f \div 100)

\* The numeric texts a cell of the file may hold.
NearOne == Num(10000, 500)      \* 1.0000000005
Fifty   == Num(500000, 0)       \* 50

RawCells ==
    { [kind |-> "empty", num |-> NaN],
      [kind |-> "text",  num |-> NaN],
      [kind |-> "num",   num |-> NearOne],
      [kind |-> "num",   num |-> Fifty] }

\* pd.to_numeric(errors="coerce") on one cell
ToNumeric(cell) == IF cell.kind = "num" THEN cell.num ELSE NaN

----------------------------------------------------------------------------
(* Labels, maps and paths *)

RowNames == <<"Asia", "Afr", "Eur", "NAm", "SAm", "Oce">>
ColNames == <<"V1", "V2", "V3", "V4", "V5", "V6">>
ListNames == <<"A", "B", "C", "D">>

EmptyMap == [k \in {} |-> ""]

\* Index.map(dict): a label the dict lacks becomes nan
RenameNoFallback(labels, map) ==
    [i \in 1..Len(labels) |->
        IF labels[i] \in DOMAIN map THEN map[labels[i]] ELSE "nan"]

\* dict.get(label, label) over a sequence of labels: DataFrame.rename
Rename(labels, map) ==
    [i \in 1..Len(labels) |->
        IF labels[i] \in DOMAIN map THEN map[labels[i]] ELSE labels[i]]

RenameIndex(d, map) == [d EXCEPT !.index = Rename(d.index, map)]
RenameColumns(d, map) == [d EXCEPT !.columns = Rename(d.columns, map)]

LabelMaps ==
    { [none |-> TRUE, map |-> EmptyMap],
      [none |-> FALSE, map |-> ("Asia" :> "ASIA" @@ "Afr" :> "Asia")] }

XLabelChoices ==
    { [kind |-> "none", labels |-> <<>>, map |-> EmptyMap],
      [kind |-> "dict", labels |-> <<>>, map |-> ("V1" :> "Alpha" @@ "V9" :> "V2")],
      [kind |-> "str",  labels |-> <<>>, map |-> EmptyMap] }
    \cup { [kind |-> "list", labels |-> SubSeq(ListNames, 1, n), map |-> EmptyMap]
           : n \in 0..MaxLabels }

CsvFiles ==
    { <<"a", ".", "c">>,
      <<"d", ".", "x", "/", "a">>,
      <<"d", "/", ".", "c">> }

Suffix == <<"_recreated.png">>

\* index of the last occurrence of ch in p, 0 when absent
LastIndex(p, ch) ==
    IF \E i \in 1..Len(p) : p[i] = ch
    THEN CHOOSE i \in 1..Len(p) : p[i] = ch /\ \A j \in (i+1)..Len(p) : p[j] # ch
    ELSE 0

\* p.rsplit(".", 1)[0]: cut at the last dot wherever it stands
SplitextRootAnyDot(p) ==
    IF LastIndex(p, ".") > 0 THEN SubSeq(p, 1, LastIndex(p, ".") - 1) ELSE p

\* os.path.splitext(p)[0]: cut at the last dot of the last component, unless
\* only dots precede it in that component
SplitextRoot(p) ==
    LET sep == LastIndex(p, "/")
        dot == LastIndex(p, ".")
    IN  IF dot > sep /\ \E k \in (sep+1)..(dot-1) : p[k] # "."
        THEN SubSeq(p, 1, dot - 1)
        ELSE p

\* os.path.basename(p)
Basename(p) == SubSeq(p, LastIndex(p, "/") + 1, Len(p))

OutputFile(p) == SplitextRoot(p) \o Suffix

Title(t, p) == IF t # "" THEN <<t>> ELSE SplitextRoot(Basename(p))

----------------------------------------------------------------------------
(* Dataframe operations *)

ReadCsv(file) ==
    [index   |-> file.index,
     columns |-> file.columns,
     values  |-> [i \in 1..Len(file.index) |->
                    [j \in 1..Len(file.columns) |-> ToNumeric(file.cells[i][j])]]]

NRows(d) == Len(d.index)
NCols(d) == Len(d.columns)

RowHasData(d, i) == \E j \in 1..NCols(d) : ~d.values[i][j].nan
ColHasData(d, j) == \E i \in 1..NRows(d) : ~d.values[i][j].nan

Pick(s, idx) == [k \in 1..Len(idx) |-> s[idx[k]]]
Iota(n) == [i \in 1..n |-> i]

\* df.dropna(how="any")
DropNaRowsAny(d) ==
    LET keep == SelectSeq(Iota(NRows(d)),
                          LAMBDA i : \A j \in 1..NCols(d) : ~d.values[i][j].nan)
    IN  [index |-> Pick(d.index, keep),
         columns |-> d.columns,
         values |-> Pick(d.values, keep)]

\* df.dropna(how="all")
DropNaRows(d) ==
    LET keep == SelectSeq(Iota(NRows(d)), LAMBDA i : RowHasData(d, i))
    IN  [index |-> Pick(d.index, keep),
         columns |-> d.columns,
         values |-> Pick(d.values, keep)]

\* df.dropna(axis=1, how="all")
DropNaCols(d) ==
    LET keep == SelectSeq(Iota(NCols(d)), LAMBDA j : ColHasData(d, j))
    IN  [index |-> d.index,
         columns |-> Pick(d.columns, keep),
         values |-> [i \in 1..NRows(d) |-> Pick(d.values[i], keep)]]

\* df.empty
IsEmpty(d) == NRows(d) = 0 \/ NCols(d) = 0

Cells(d) == { d.values[i][j] : i \in 1..NRows(d), j \in 1..NCols(d) }

\* np.nanmax(df.values.astype(float)): raises on a zero-size array, is nan
\* when every cell is nan, else the largest non-nan cell
NanMax(d) ==
    LET present == { v \in Cells(d) : ~v.nan }
    IN  IF IsEmpty(d) THEN [raised |-> TRUE, val |-> NaN]
        ELSE IF present = {} THEN [raised |-> FALSE, val |-> NaN]
        ELSE [raised |-> FALSE,
              val |-> CHOOSE v \in present : \A w \in present : ~Gt(w, v)]

\* max_val > 1.0, without the tolerance
LooksLikePercentNoTolerance(m) == ~m.nan /\ Gt(m, Num(10000, 0))

\* max_val > 1.0 + 1e-9 (a comparison with nan is False)
LooksLikePercent(m) == ~m.nan /\ Gt(m, RescaleThreshold)

\* df / 100.0
Scale(d) ==
    [d EXCEPT !.values = [i \in 1..NRows(d) |->
                            [j \in 1..NCols(d) |-> Div100(d.values[i][j])]]]

----------------------------------------------------------------------------
(* The call *)

NoDf == [index |-> <<>>, columns |-> <<>>, values |-> <<>>]
NoChart == [series |-> <<>>, xticks |-> 0, xticklabels |-> <<>>,
            ylabel |-> "", ylim |-> <<0, 0>>, title |-> <<>>, legend |-> <<>>]
NoTicks == [none |-> TRUE, labels |-> <<>>]

Init ==
    /\ \E r \in 0..MaxCells, c \in 0..MaxCells :
          /\ r * c <= MaxCells
          /\ csv \in [index : {SubSeq(RowNames, 1, r)},
                      columns : {SubSeq(ColNames, 1, c)},
                      cells : [1..r -> [1..c -> RawCells]]]
    /\ csv_file \in CsvFiles
    /\ custom_title \in {"", "81"}
    /\ custom_x_labels \in XLabelChoices
    /\ label_map \in LabelMaps
    /\ y_unit \in {"percent", "proportion"}
    /\ df = NoDf
    /\ x_tick_labels = NoTicks
    /\ max_failed = FALSE
    /\ chart = NoChart
    /\ files = {}
    /\ ret = <<>>
    /\ err = <<>>
    /\ pc = "start"

inputs == <<csv_file, csv, custom_title, custom_x_labels, label_map, y_unit>>

\* lines 30-31
Load ==
    /\ pc = "start"
    /\ df' = ReadCsv(csv)
    /\ pc' = "loaded"
    /\ UNCHANGED <<inputs, x_tick_labels, max_failed, chart, files, ret, err>>

\* lines 34-35
ApplyLabelMap ==
    /\ pc = "loaded"
    /\ df' = IF ~label_map.none /\ DOMAIN label_map.map # {}
             THEN RenameIndex(df, label_map.map)
             ELSE df
    /\ pc' = "renamed"
    /\ UNCHANGED <<inputs, x_tick_labels, max_failed, chart, files, ret, err>>

LengthError(n, m) == <<"custom_x_labels length", n, "!= number of columns", m>>

\* a check that only rejects lists that are too long
LengthMismatchTooLong(labels, d) == Len(labels) > NCols(d)

\* line 42
LengthMismatch(labels, d) == Len(labels) # NCols(d)

\* lines 38-46
XLabels ==
    /\ pc = "renamed"
    /\ IF custom_x_labels.kind = "dict"
       THEN /\ df' = RenameColumns(df, custom_x_labels.map)
            /\ x_tick_labels' = NoTicks
            /\ pc' = "labelled"
            /\ err' = err
       ELSE IF custom_x_labels.kind = "list"
       THEN IF LengthMismatch(custom_x_labels.labels, df)
            THEN /\ err' = LengthError(Len(custom_x_labels.labels), NCols(df))
                 /\ pc' = "error"
                 /\ UNCHANGED <<df, x_tick_labels>>
            ELSE /\ x_tick_labels' = [none |-> FALSE, labels |-> custom_x_labels.labels]
                 /\ pc' = "labelled"
                 /\ UNCHANGED <<df, err>>
       ELSE /\ x_tick_labels' = NoTicks
            /\ pc' = "labelled"
            /\ UNCHANGED <<df, err>>
    /\ UNCHANGED <<inputs, max_failed, chart, files, ret>>

\* only the all-missing columns dropped
CleanedColumnsOnly(d) == DropNaCols(d)

\* lines 49-50
Cleaned(d) == DropNaCols(DropNaRows(d))

EmptyError == <<"No numeric data to plot after cleaning the CSV.">>

\* lines 49-52
Clean ==
    /\ pc = "labelled"
    /\ df' = Cleaned(df)
    /\ IF IsEmpty(df')
       THEN /\ err' = EmptyError
            /\ pc' = "error"
       ELSE /\ err' = err
            /\ pc' = "cleaned"
    /\ UNCHANGED <<inputs, x_tick_labels, max_failed, chart, files, ret>>

\* lines 55-61
Normalize ==
    /\ pc = "cleaned"
    /\ IF y_unit = "proportion"
       THEN LET m == NanMax(df)
            IN  IF m.raised
                THEN /\ max_failed' = TRUE
                     /\ df' = df
                ELSE /\ max_failed' = max_failed
                     /\ df' = IF LooksLikePercent(m.val) THEN Scale(df) ELSE df
       ELSE UNCHANGED <<df, max_failed>>
    /\ pc' = "normalized"
    /\ UNCHANGED <<inputs, x_tick_labels, chart, files, ret, err>>

CycleLen == 10

\* line 73: no colour is passed, so the axes' colour cycle assigns "C<k>" to
\* the k-th line drawn; str(idx) of a text label is that text
PlotRow(d, i) ==
    [label |-> d.index[i], y |-> d.values[i],
     color |-> [auto |-> TRUE, cycle |-> (i - 1) % CycleLen]]

TickError(n, m) == <<"The number of FixedLocator locations", n,
                     "does not match the number of labels", m>>

\* lines 64-86: the figure with its lines, y axis, title and x ticks, before
\* any tick label or legend is put on it
DrawnAxes(d) ==
    [series |-> [i \in 1..NRows(d) |-> PlotRow(d, i)],
     xticks |-> NCols(d),
     xticklabels |-> <<>>,
     ylabel |-> IF y_unit = "proportion" THEN "Proportion" ELSE "Percent",
     ylim |-> IF y_unit = "proportion" THEN <<0, 1>> ELSE <<0, 100>>,
     title |-> Title(custom_title, csv_file),
     legend |-> <<>>]

\* lines 87-95: the tick labels shown and the legend of the labelled lines
Labelled(axes, shown) ==
    [axes EXCEPT !.xticklabels = shown,
                 !.legend = [i \in 1..Len(axes.series) |-> axes.series[i].label]]

\* the labels the ticks take from a list: one per tick, in order
ShownLabels(labels, n) ==
    SubSeq(labels, 1, IF Len(labels) < n THEN Len(labels) ELSE n)

\* lines 64-95. When the labels handed to set_xticklabels (line 87) are not
\* as many as the ticks set at line 86, the outcome is the installed
\* matplotlib's: from 3.3 on it raises, with lines 64-86 already drawn and the
\* figure left open; before 3.3 the ticks take the first labels and the call
\* goes on.
Plot ==
    /\ pc = "normalized"
    /\ LET labels == IF x_tick_labels.none THEN df.columns ELSE x_tick_labels.labels
           mismatch == Len(labels) # 0 /\ Len(labels) # NCols(df)
       IN  \* lines 67-68: the local takes the column names when it is None
           /\ x_tick_labels' = [none |-> FALSE, labels |-> labels]
           /\ \/ /\ ~mismatch
                 /\ chart' = Labelled(DrawnAxes(df), labels)
                 /\ pc' = "plotted"
                 /\ err' = err
              \/ /\ mismatch
                 /\ chart' = DrawnAxes(df)
                 /\ err' = TickError(NCols(df), Len(labels))
                 /\ pc' = "error"
              \/ /\ mismatch
                 /\ chart' = Labelled(DrawnAxes(df), ShownLabels(labels, NCols(df)))
                 /\ pc' = "plotted"
                 /\ err' = err
    /\ UNCHANGED <<inputs, df, max_failed, files, ret>>

\* lines 98-104
Save ==
    /\ pc = "plotted"
    /\ files' = files \cup {OutputFile(csv_file)}
    /\ ret' = OutputFile(csv_file)
    /\ pc' = "done"
    /\ UNCHANGED <<inputs, df, x_tick_labels, max_failed, chart, err>>

Next ==
    \/ Load
    \/ ApplyLabelMap
    \/ XLabels
    \/ Clean
    \/ Normalize
    \/ Plot
    \/ Save

Spec == Init /\ [][Next]_vars

----------------------------------------------------------------------------
(* The source table as the file holds it, for stating the properties *)

SrcHasNumber(i, j) == csv.cells[i][j].kind = "num"
SrcRowCount == Len(csv.index)
SrcColCount == Len(csv.columns)

\* rows and columns of the file holding at least one numeric cell, in file order
SrcRows == SelectSeq(Iota(SrcRowCount),
                     LAMBDA i : \E j \in 1..SrcColCount : SrcHasNumber(i, j))
SrcCols == SelectSeq(Iota(SrcColCount),
                     LAMBDA j : \E i \in 1..SrcRowCount : SrcHasNumber(i, j))

SrcNoData == \A i \in 1..SrcRowCount, j \in 1..SrcColCount : ~SrcHasNumber(i, j)

\* the file's number at the i-th surviving row and j-th surviving column
SrcValue(i, j) == csv.cells[SrcRows[i]][SrcCols[j]]

Done == pc = "done"
Failed == pc = "error"
BeforeClean == {"start", "loaded", "renamed", "labelled"}
AfterClean == {"cleaned", "normalized", "plotted", "done"}

IsLengthError == err # <<>> /\ err[1] = "custom_x_labels length"
IsTickError == err # <<>> /\ err[1] = "The number of FixedLocator locations"

NoOutput == files = {} /\ ret = <<>>

----------------------------------------------------------------------------
(* C1: an x_labels list whose length differs from the column count of the  *)
(* table (as parsed; it is the count the check at line 42 reads) ends the  *)
(* call with the length error naming both lengths, for a list too short as *)
(* for one too long; and a call that ended in this error has written no    *)
(* file, returned no path and drawn nothing. No call given a list renders  *)
(* unless the list is as long as that column count.                        *)
C1_LengthMismatchFails ==
    /\ (/\ custom_x_labels.kind = "list"
        /\ Len(custom_x_labels.labels) # SrcColCount
        /\ pc \notin {"start", "loaded", "renamed"})
       => (/\ Failed
           /\ err = LengthError(Len(custom_x_labels.labels), SrcColCount))
    /\ IsLengthError
       => (/\ Failed
           /\ NoOutput
           /\ chart = NoChart
           /\ custom_x_labels.kind = "list"
           /\ err[2] = Len(custom_x_labels.labels)
           /\ err[4] = SrcColCount
           /\ err[2] # err[4])
    /\ (Done /\ custom_x_labels.kind = "list")
       => Len(custom_x_labels.labels) = SrcColCount

C1_Witness ==
    /\ Failed
    /\ IsLengthError
    /\ Len(custom_x_labels.labels) < SrcColCount
    /\ ~SrcNoData

(* C2 (as claimed): for every input table, a call whose table has no       *)
(* numeric cell (zero rows or zero columns remain after cleaning) ends     *)
(* with the empty-data error and writes no file; and the empty-data error  *)
(* is raised only for such a table.                                        *)
C2_EmptyDataError ==
    /\ (SrcNoData /\ pc \in {"done", "error"})
       => (Failed /\ err = EmptyError /\ NoOutput)
    /\ (Failed /\ err = EmptyError) => (SrcNoData /\ NoOutput)

(* C3 (as claimed): an x_labels value that is neither a sequence, a        *)
(* mapping nor absent makes the call fail, with no file written.           *)
C3_InvalidTypeRejected ==
    custom_x_labels.kind = "str" => (~Done /\ NoOutput)

\* the largest numeric cell of the file exceeds 1 + 1e-9
SrcLooksLikePercent ==
    \E i \in 1..SrcRowCount, j \in 1..SrcColCount :
        /\ SrcHasNumber(i, j)
        /\ \/ csv.cells[i][j].num.c > 10000
           \/ csv.cells[i][j].num.c = 10000 /\ csv.cells[i][j].num.f > 1000

\* y is v divided by exactly 100
IsHundredth(y, v) ==
    /\ ~y.nan
    /\ v.c = y.c * 100 + y.f \div CentShift
    /\ v.f = (y.f % CentShift) * 100

(* C4: the plotted values are the cleaned source values, each divided by   *)
(* exactly 100 when y_unit is "proportion" and the largest source value    *)
(* exceeds 1 + 1e-9, and unchanged otherwise (always unchanged for         *)
(* "percent"); the rescale covers every cell and is applied once.          *)
C4_RescaleAllOrNothing ==
    Done =>
        /\ Len(chart.series) = Len(SrcRows)
        /\ \A i \in 1..Len(chart.series) :
              /\ Len(chart.series[i].y) = Len(SrcCols)
              /\ \A j \in 1..Len(SrcCols) :
                    LET y == chart.series[i].y[j]
                        v == SrcValue(i, j)
                    IN  IF v.kind # "num" THEN y.nan
                        ELSE IF y_unit = "proportion" /\ SrcLooksLikePercent
                        THEN IsHundredth(y, v.num)
                        ELSE y = v.num

C4_Witness ==
    /\ Done
    /\ y_unit = "proportion"
    /\ Len(SrcRows) = 2
    /\ Len(SrcCols) = 2
    /\ chart.series[1].y[1] = Div100(NearOne)
    /\ chart.series[2].y[2] = Div100(Fifty)
    /\ chart.series[1].y[2].nan

(* C5: a successful render has one labelled series per row of the file     *)
(* with a numeric cell and one x position per column of the file with a    *)
(* numeric cell, in file order; all-missing rows and columns do not        *)
(* appear; and there are as many tick labels as x positions.               *)
C5_SeriesAndPositions ==
    Done =>
        /\ Len(chart.series) = Len(SrcRows)
        /\ Len(chart.legend) = Len(SrcRows)
        /\ chart.xticks = Len(SrcCols)
        /\ Len(chart.xticklabels) = chart.xticks
        /\ \A i \in 1..Len(chart.series) :
              /\ Len(chart.series[i].y) = chart.xticks
              /\ \A j \in 1..chart.xticks :
                    chart.series[i].y[j].nan <=> SrcValue(i, j).kind # "num"

C5_Witness ==
    /\ Done
    /\ SrcRowCount = 2
    /\ SrcColCount = 2
    /\ Len(chart.series) = 1
    /\ chart.xticks = 1
    /\ SrcRows = <<2>>
    /\ SrcCols = <<2>>

\* the display label of an original label under an optional mapping
Display(given, map, k) == IF given /\ k \in DOMAIN map THEN map[k] ELSE k

(* C6: label_map renames and never filters: the series are those plotted   *)
(* without a label_map, each shown in the legend under its mapped label    *)
(* when its original key is in label_map and under its original key        *)
(* otherwise; a dict x_labels does the same for the tick labels.           *)
C6_RenameNotFilter ==
    Done =>
        /\ Len(chart.series) = NRows(Cleaned(ReadCsv(csv)))
        /\ Len(chart.legend) = Len(SrcRows)
        /\ \A i \in 1..Len(SrcRows) :
              /\ chart.legend[i] =
                    Display(~label_map.none, label_map.map, csv.index[SrcRows[i]])
              /\ chart.series[i].label = chart.legend[i]
        /\ custom_x_labels.kind = "dict" =>
              /\ Len(chart.xticklabels) = Len(SrcCols)
              /\ \A j \in 1..Len(SrcCols) :
                    chart.xticklabels[j] =
                        Display(TRUE, custom_x_labels.map, csv.columns[SrcCols[j]])

C6_Witness ==
    /\ Done
    /\ ~label_map.none
    /\ custom_x_labels.kind = "dict"
    /\ chart.legend = <<"ASIA", "Asia", "Eur">>
    /\ chart.xticklabels = <<"Alpha">>

\* a key the spec's palette names (its scenario: "Asia")
C7_PaletteKeys == {"Asia"}

(* C7 (as claimed): a series whose original key is in the palette is drawn *)
(* in its palette colour, not in a colour the library assigned.            *)
C7_PaletteByOriginalKey ==
    Done =>
        \A i \in 1..Len(chart.series) :
            csv.index[SrcRows[i]] \in C7_PaletteKeys => ~chart.series[i].color.auto

\* the characters of p after its first k
PathAfter(p, k) == SubSeq(p, k + 1, Len(p))

\* t is an extension: a dot followed by characters that are neither dots
\* nor separators
IsExtension(t) ==
    /\ Len(t) >= 1
    /\ t[1] = "."
    /\ \A n \in 2..Len(t) : t[n] \notin {".", "/"}

\* the last component of p reaches into its first k characters with a
\* character that is not a dot
HasStem(p, k) ==
    \E q \in 1..k : p[q] # "." /\ \A n \in q..k : p[n] # "/"

(* C8: a successful call writes exactly one file, at the source path with  *)
(* its extension replaced by "_recreated.png" (a path without extension    *)
(* gets the suffix appended), and returns that path; until then, and in    *)
(* every failed call, no file is written and no path returned.             *)
C8_OutputPath ==
    /\ Done =>
          /\ files = {ret}
          /\ \E k \in 0..Len(csv_file) :
                /\ ret = SubSeq(csv_file, 1, k) \o <<"_recreated.png">>
                /\ IF HasStem(csv_file, k) /\ IsExtension(PathAfter(csv_file, k))
                   THEN TRUE
                   ELSE /\ k = Len(csv_file)
                        /\ \A n \in 0..Len(csv_file) :
                              ~(/\ HasStem(csv_file, n)
                                /\ IsExtension(PathAfter(csv_file, n)))
    /\ ~Done => NoOutput

C8_Witness ==
    /\ Done
    /\ csv_file = <<"d", ".", "x", "/", "a">>
    /\ ret = <<"d", ".", "x", "/", "a", "_recreated.png">>
    /\ custom_title = "81"

(* C9 (as claimed): an x_labels list as long as the number of columns that *)
(* survive cleaning is accepted and becomes the tick labels.               *)
C9_CheckedAgainstCleaned ==
    (/\ pc \in {"done", "error"}
     /\ custom_x_labels.kind = "list"
     /\ ~SrcNoData
     /\ Len(custom_x_labels.labels) = Len(SrcCols))
    => (Done /\ chart.xticklabels = custom_x_labels.labels)

(* C10: after a successful cleaning every remaining row and every          *)
(* remaining column holds a non-missing cell, so the maximum of the table  *)
(* is computable where the normalization reads it, the except branch of    *)
(* the normalization is never taken, and no call ends in an error of the   *)
(* normalization.                                                          *)
C10_CleanedHasData ==
    /\ pc \in AfterClean =>
          /\ NRows(df) >= 1
          /\ NCols(df) >= 1
          /\ \A i \in 1..NRows(df) : RowHasData(df, i)
          /\ \A j \in 1..NCols(df) : ColHasData(df, j)
          /\ ~NanMax(df).raised
          /\ ~NanMax(df).val.nan
    /\ ~max_failed
    /\ Failed => (IsLengthError \/ err = EmptyError \/ IsTickError)

C10_Witness ==
    /\ pc = "normalized"
    /\ y_unit = "proportion"
    /\ NRows(df) < SrcRowCount
    /\ NCols(df) < SrcColCount
    /\ df.values # Cleaned(ReadCsv(csv)).values

====
